---- MODULE Spec2Model ----
(***************************************************************************)
(* Model of approx_post/losses.py: the Loss, ReverseKL and ForwardKL       *)
(* classes.  Two layers:                                                   *)
(*                                                                         *)
(*  - the call layer (specification Spec): every method body of the file   *)
(*    is written out as a list of statements and run by a small evaluator  *)
(*    that follows Python's rules for name lookup, attribute lookup and    *)
(*    argument binding.  It records which collaborator operations were     *)
(*    called, with which sample count, and how the call ended (a return    *)
(*    value or the exception raised).  Tensor arithmetic on values the     *)
(*    collaborators return is taken to succeed.                            *)
(*                                                                         *)
(*  - the numeric layer (specification SpecNum): the arithmetic of         *)
(*    _compute_importance_samples and of the closing reduction of each     *)
(*    estimator, over exact rationals, log-weights in units of ln 2.       *)
(*                                                                         *)
(* The def at line 191 lacks its closing colon; the model reads it as the  *)
(* def it is meant to be, since otherwise no line of the file executes.    *)
(***************************************************************************)
EXTENDS Integers, Sequences, FiniteSets, TLC

VARIABLES
    methodsDefined, \* whether the class attribute `_methods` resolves (line 87)
    inst,           \* the loss object the caller holds (its attributes)
    last,           \* the last call made and how it ended
    calc            \* numeric layer: the last computation and its result

vars == <<methodsDefined, inst, last, calc>>

\* ---------------------------------------------------------------- bounds

\* Largest explicit num_samples the caller passes to eval.
MaxNumSamples == 2

\* Largest length of the sample axis in the numeric layer.
MaxSamples == 2

\* ------------------------------------------------------- Python values

\* A Python value, as far as the call layer tells values apart.
\* kind: what sort of object; name: the array's tag, the method's or the
\* collaborator operation's name; n: an int's value; snd: the tag of a pair's
\* second component.
V(kind, name, n, snd) == [kind |-> kind, name |-> name, n |-> n, snd |-> snd]

NoneV == V("None", "", 0, "")
SelfV == V("loss", "", 0, "")
ApproxV == V("approx", "", 0, "")
JointV == V("joint", "", 0, "")
ModuleV == V("module", "", 0, "")
IntV(n) == V("int", "", n, "")
BoolV(b) == V("bool", "", IF b THEN 1 ELSE 0, "")
StrV(s) == V("str", s, 0, "")
ArrV(tag) == V("array", tag, 0, "")
PairV(a, b) == V("pair", a.name, 0, b.name)
MethodV(f) == V("method", f, 0, "")
ApproxOpV(f) == V("approx_op", f, 0, "")
JointOpV(f) == V("joint_op", f, 0, "")
CallableV == V("callable", "", 0, "")

\* Names every function body can read without binding them: the two imports
\* (lines 2-3) and the builtins the file uses.
Globals == {"np", "jnp", "all", "hasattr", "range"}

\* Attributes of the numpy / jax.numpy modules the file touches that exist.
\* `np.ndims` (line 15) does not: the function is np.ndim.
NpAttrs == {"einsum", "mean", "sum", "exp", "max", "linalg", "solve"}

\* Attributes of an array (or arraytainer) value the file touches.
ArrayAttrs == {"flatten", "reshape", "T", "sum", "apply", "shape"}

\* The joint collaborator's capability set (spec section 6 names exactly these).
JointCaps == {"logprob", "logprob_del_1"}

\* The approximating family's capability sets: single-component, mixture, and
\* each with the optional phi -> params Jacobian.
BaseCaps ==
    {"phi", "sample", "sample_base", "transform", "logprob",
     "logprob_del_1", "logprob_del_2", "transform_del_2"}

MixtureCaps ==
    BaseCaps \cup {"logprob_del_1_components", "logprob_del_2_components",
                   "coefficients"}

ApproxCapSets ==
    {BaseCaps, MixtureCaps,
     BaseCaps \cup {"phi_del_params"}, MixtureCaps \cup {"phi_del_params"}}

\* ------------------------------------------------------ class contents

\* ReverseKL._default_num_samples.
default_num_samples ==
    [elbo_cv |-> 1000, elbo_reparam |-> 100, selbo_reparam |-> 10, selbo_cv |-> 100]

\* Default of ForwardKL.eval's num_samples parameter.
ForwardKL_num_samples == 1000

\* The valid method strings, as both error messages name them.
Methods == {"elbo", "selbo"}

\* str.lower() on the method strings the caller passes.
Lower(s) ==
    CASE s = "ELBO" -> "elbo"
      [] s = "Selbo" -> "selbo"
      [] OTHER -> s

\* Parameter lists of every def, in source order, with the number of
\* parameters that have no default, and whether the def is a staticmethod.
Def(params, required, static) ==
    [params |-> params, required |-> required, static |-> static]

LossDefs ==
    [ _compute_loss_del_params |->
        Def(<<"loss_del_phi", "x", "approxdist">>, 3, TRUE),
      _apply_controlvariates |->
        Def(<<"self", "val", "cv", "num_batch", "num_samples">>, 5, FALSE),
      _vectorise_controlvariate_input |->
        Def(<<"val", "new_shape">>, 2, TRUE),
      _compute_covariance |->
        Def(<<"val_1", "val_2", "subtract_mean_from_val_2">>, 2, TRUE),
      _compute_controlvariate_samples |->
        Def(<<"val_vec", "cov", "var">>, 3, TRUE),
      _unvectorise_controlvariate_output |->
        Def(<<"cv_samples", "val">>, 2, TRUE),
      _compute_joint_del_phi_reparameterisation |->
        Def(<<"self", "x", "theta", "transform_del_phi">>, 4, FALSE),
      _compute_approx_del_phi_reparameterisation |->
        Def(<<"approx", "phi", "theta", "transform_del_phi", "approx_is_mixture">>,
            4, TRUE) ]

ReverseKLDefs ==
    [ eval |-> Def(<<"self", "approx", "x", "num_samples">>, 3, FALSE),
      _eval_elbo_reparameterisation |->
        Def(<<"self", "approx", "phi", "x", "num_samples">>, 5, FALSE),
      _eval_elbo_cv |->
        Def(<<"self", "approx", "phi", "x", "num_samples">>, 5, FALSE),
      _eval_selbo_reparameterisation |->
        Def(<<"approx", "phi", "x", "num_samples">>, 4, FALSE),
      _eval_selbo_cv |-> Def(<<>>, 0, FALSE) ]

ForwardKLDefs ==
    [ eval |-> Def(<<"self", "approx", "x", "num_samples">>, 3, FALSE),
      _compute_importance_samples |->
        Def(<<"samples", "approx_logprob", "joint_logprob">>, 3, TRUE),
      _eval_posterior_samples |->
        Def(<<"self", "approxdist", "phi", "x", "num_samples">>, 5, FALSE),
      _eval_reparameterisation |->
        Def(<<"self", "approx", "phi", "x", "num_samples">>, 5, FALSE),
      _eval_controlvariates |->
        Def(<<"self", "approx", "phi", "x", "num_samples", "return_grad">>,
            6, FALSE) ]

\* The defs an object of class cls resolves: its own and the inherited ones.
ClassDefs(cls) ==
    IF cls = "ReverseKL" THEN ReverseKLDefs @@ LossDefs
    ELSE IF cls = "ForwardKL" THEN ForwardKLDefs @@ LossDefs
    ELSE LossDefs

\* Class attributes that are not defs.
ClassData(cls) == IF cls = "ReverseKL" THEN {"_default_num_samples"} ELSE {}

\* The attributes __init__ assigns.
InstAttrs(cls) ==
    IF cls = "ReverseKL" THEN {"joint", "use_reparameterisation", "method"}
    ELSE IF cls = "ForwardKL"
         THEN {"joint", "posterior_samples", "use_reparameterisation"}
    ELSE {}

\* ------------------------------------------------------------ statements

\* targets = path(args): evaluate the dotted path, then the arguments, then call.
Call(targets, path, args) ==
    [op |-> "call", targets |-> targets, path |-> path, args |-> args, key |-> ""]

\* target = name: bind the target to the very object the name holds.
Assign(target, name) ==
    [op |-> "assign", targets |-> <<target>>, path |-> <<>>, args |-> <<name>>, key |-> ""]

\* targets = <arithmetic on names>: a fresh array.
Use(targets, names) ==
    [op |-> "use", targets |-> targets, path |-> <<>>, args |-> names, key |-> ""]

\* target = path: an attribute read (x.T, x.shape), no call.
Attr(target, path) ==
    [op |-> "attr", targets |-> <<target>>, path |-> path, args |-> <<>>, key |-> ""]

\* num_samples = self._default_num_samples[key] if num_samples is None else num_samples
Default(key) ==
    [op |-> "default", targets |-> <<"num_samples">>, path |-> <<>>, args |-> <<>>, key |-> key]

Raise(exc) ==
    [op |-> "raise", targets |-> <<>>, path |-> <<>>, args |-> <<>>, key |-> exc]

Return(names) ==
    [op |-> "return", targets |-> <<>>, path |-> <<>>, args |-> names, key |-> ""]

\* Literal arguments: a tuple or string literal, True, False, and an expression
\* over self's attributes (self.posterior_samples), none of which can fail to
\* evaluate once self is bound.
Literals == {"<lit>", "<True>", "<False>"}

\* --------------------------------------------------------- name lookup

\* A name read inside a function body: a local, else a global or builtin.
Lookup(name, env) ==
    IF name \in DOMAIN env THEN [ok |-> TRUE, val |-> env[name]]
    ELSE IF name \in Globals THEN [ok |-> TRUE, val |-> ModuleV]
    ELSE IF name = "<lit>" THEN [ok |-> TRUE, val |-> ArrV("lit")]
    ELSE IF name = "<True>" THEN [ok |-> TRUE, val |-> BoolV(TRUE)]
    ELSE IF name = "<False>" THEN [ok |-> TRUE, val |-> BoolV(FALSE)]
    ELSE [ok |-> FALSE, val |-> NoneV]

\* getattr(val, attr).  ctx.self holds the loss object's attributes, ctx.caps the
\* capability set of the approx collaborator passed in.
GetAttr(val, attr, ctx) ==
    CASE val.kind = "loss" ->
           IF attr \in InstAttrs(ctx.self.cls)
           THEN [ok |-> TRUE,
                 val |-> CASE attr = "joint" ->
                                IF ctx.self.joint THEN JointV ELSE NoneV
                           [] attr = "posterior_samples" ->
                                IF ctx.self.posterior_samples
                                THEN ArrV("posterior_samples") ELSE NoneV
                           [] attr = "method" -> StrV(ctx.self.method)
                           [] OTHER -> BoolV(ctx.self.use_reparameterisation)]
           ELSE IF attr \in DOMAIN ClassDefs(ctx.self.cls)
           THEN [ok |-> TRUE, val |-> MethodV(attr)]
           ELSE IF attr \in ClassData(ctx.self.cls)
           THEN [ok |-> TRUE, val |-> ArrV(attr)]
           ELSE [ok |-> FALSE, val |-> NoneV]
      [] val.kind = "approx" ->
           IF attr \in ctx.caps THEN [ok |-> TRUE, val |-> ApproxOpV(attr)]
           ELSE [ok |-> FALSE, val |-> NoneV]
      [] val.kind = "joint" ->
           IF attr \in JointCaps THEN [ok |-> TRUE, val |-> JointOpV(attr)]
           ELSE [ok |-> FALSE, val |-> NoneV]
      [] val.kind = "module" ->
           IF attr \in NpAttrs
           THEN [ok |-> TRUE, val |-> IF attr = "linalg" THEN ModuleV ELSE CallableV]
           ELSE [ok |-> FALSE, val |-> NoneV]
      [] val.kind = "array" ->
           IF attr \in ArrayAttrs
           THEN [ok |-> TRUE,
                 val |-> IF attr \in {"T", "shape"} THEN ArrV(val.name) ELSE CallableV]
           ELSE [ok |-> FALSE, val |-> NoneV]
      [] OTHER -> [ok |-> FALSE, val |-> NoneV]

\* hasattr(val, attr)
HasAttr(val, attr, ctx) == GetAttr(val, attr, ctx).ok

RECURSIVE Walk(_, _, _)
\* val.a1.a2...: AttributeError at the first attribute that does not resolve.
Walk(val, attrs, ctx) ==
    IF attrs = <<>> THEN [exc |-> "none", what |-> "", val |-> val]
    ELSE LET g == GetAttr(val, Head(attrs), ctx)
         IN IF g.ok THEN Walk(g.val, Tail(attrs), ctx)
            ELSE [exc |-> "AttributeError", what |-> Head(attrs), val |-> NoneV]

\* A dotted path: NameError if its head is unbound (UnboundLocalError, raised for
\* a local read before its assignment, is a NameError).
ResolvePath(path, env, ctx) ==
    LET head == Lookup(path[1], env)
    IN IF head.ok THEN Walk(head.val, Tail(path), ctx)
       ELSE [exc |-> "NameError", what |-> path[1], val |-> NoneV]

\* The positions of the names a statement reads that are not bound.
Unbound(names, env) ==
    {i \in 1..Len(names) : ~Lookup(names[i], env).ok}

\* The first of them, the one the NameError names.
FirstUnbound(names, env) ==
    names[CHOOSE i \in Unbound(names, env) : \A j \in Unbound(names, env) : i <= j]

ArgVals(names, env) == [i \in 1..Len(names) |-> Lookup(names[i], env).val]

\* ----------------------------------------------- the bodies of the defs
\* Each body is the list of statements the def executes for the bound
\* arguments env, on the path its conditions select; "<t>" names the value of a
\* nested call expression.

\* Loss._compute_loss_del_params
_compute_loss_del_params(env, ctx) ==
    ( IF ~HasAttr(env["approxdist"], "phi_del_params", ctx)
      THEN << Assign("loss_del_params", "loss_del_phi") >>
      ELSE << Call(<<"phi_del_params">>, <<"approxdist", "phi_del_params">>, <<"x">>),
              Call(<<"phi_ndims">>, <<"np", "ndims">>, <<"loss_del_phi">>),
              Use(<<"phi_del_w">>, <<"phi_del_w">>),
              Attr("loss_del_phi", <<"loss_del_phi", "T">>),
              Attr("phi_del_w", <<"phi_del_w", "T">>),
              Use(<<"loss_del_params">>, <<"phi_del_w", "loss_del_phi">>),
              Attr("loss_del_params", <<"loss_del_params", "T">>),
              Call(<<"loss_del_params">>, <<"loss_del_params", "sum">>, <<>>),
              Call(<<"loss_del_params">>, <<"loss_del_params", "apply">>,
                   <<"<lit>", "phi_ndims">>) >> )
    \o << Return(<<"loss_del_params">>) >>

\* Loss._apply_controlvariates
_apply_controlvariates(env, ctx) ==
    << Use(<<"<t>">>, <<"num_batch", "num_samples">>),
       Call(<<"val_vec">>, <<"self", "_vectorise_controlvariate_input">>,
            <<"val", "<t>">>),
       Use(<<"<t>">>, <<"num_batch", "num_samples">>),
       Call(<<"cv_vec">>, <<"self", "_vectorise_controlvariate_input">>,
            <<"cv", "<t>">>),
       Call(<<"var">>, <<"self", "_compute_covariance">>, <<"cv_vec", "cv_vec">>),
       Call(<<"cov">>, <<"self", "_compute_covariance">>,
            <<"cv_vec", "val_vec", "<True>">>),
       Call(<<"cv_samples">>, <<"self", "_compute_controlvariate_samples">>,
            <<"val_vec", "cov", "var">>),
       Call(<<"val">>, <<"self", "_unvectorise_controlvariate_output">>,
            <<"cv_samples", "val">>),
       Return(<<"val">>) >>

\* Loss._vectorise_controlvariate_input
_vectorise_controlvariate_input(env, ctx) ==
    << Call(<<"flattened">>, <<"val", "flatten">>, <<"<lit>">>),
       Call(<<"<t>">>, <<"flattened", "reshape">>, <<"vectorised_shape", "<lit>">>),
       Return(<<"<t>">>) >>

\* Loss._compute_covariance
_compute_covariance(env, ctx) ==
    ( IF env["subtract_mean_from_val_2"].n = 1
      THEN << Call(<<"<t>">>, <<"np", "mean">>, <<"val_2">>),
              Use(<<"val_2">>, <<"val_2", "<t>">>) >>
      ELSE << >> )
    \o << Call(<<"<t>">>, <<"np", "einsum">>, <<"<lit>", "val_1", "val_2">>),
          Call(<<"<t>">>, <<"np", "mean">>, <<"<t>">>),
          Return(<<"<t>">>) >>

\* Loss._compute_controlvariate_samples
_compute_controlvariate_samples(env, ctx) ==
    << Call(<<"a">>, <<"np", "linalg", "solve">>, <<"var", "cov">>),
       Call(<<"<t>">>, <<"np", "einsum">>, <<"<lit>", "a", "cv_vec">>),
       Use(<<"<t>">>, <<"val_vec", "<t>">>),
       Return(<<"<t>">>) >>

\* Loss._unvectorise_controlvariate_output: `pass`
_unvectorise_controlvariate_output(env, ctx) == << >>

\* Loss._compute_joint_del_phi_reparameterisation
_compute_joint_del_phi_reparameterisation(env, ctx) ==
    << Call(<<"joint_del_1">>, <<"self", "joint", "logprob_del_1">>, <<"theta", "x">>),
       Call(<<"<t>">>, <<"np", "einsum">>,
            <<"<lit>", "joint_del_1", "transform_del_phi">>),
       Return(<<"<t>">>) >>

\* Loss._compute_approx_del_phi_reparameterisation
_compute_approx_del_phi_reparameterisation(env, ctx) ==
    ( IF env["approx_is_mixture"].n = 1
      THEN << Call(<<"approx_del_1">>, <<"approx", "logprob_del_1">>,
                   <<"theta", "phi">>),
              Call(<<"approx_del_2">>, <<"approx", "logprob_del_2">>,
                   <<"theta", "phi">>) >>
      ELSE << Call(<<"approx_del_1">>, <<"approx", "logprob_del_1_components">>,
                   <<"theta", "phi">>),
              Call(<<"approx_del_2">>, <<"approx", "logprob_del_2_components">>,
                   <<"theta", "phi">>) >> )
    \o << Call(<<"<t>">>, <<"np", "einsum">>,
               <<"<lit>", "approx_del_1", "transform_del_phi">>),
          Use(<<"approx_del_phi">>, <<"<t>", "approx_del_2">>),
          Return(<<"approx_del_phi">>) >>

\* The estimator ReverseKL.eval selects: the key of its default sample count and
\* the method it calls, or "" when the method attribute is neither string.
ReverseKL_strategy(self) ==
    IF self.method = "elbo"
    THEN IF self.use_reparameterisation
         THEN [key |-> "elbo_reparam", f |-> "_eval_elbo_reparameterisation"]
         ELSE [key |-> "elbo_cv", f |-> "_eval_elbo_cv"]
    ELSE IF self.method = "selbo"
    THEN IF self.use_reparameterisation
         THEN [key |-> "selbo_reparam", f |-> "_eval_selbo_reparameterisation"]
         ELSE [key |-> "selbo_cv", f |-> "_eval_selbo_cv"]
    ELSE [key |-> "", f |-> ""]

\* The parameter-space lifting step that closes both eval methods (lines 112, 212).
eval_lifting ==
    << Call(<<"loss_del_params">>, <<"self", "_eval_loss_del_params">>,
            <<"loss_del_phi", "x", "approx">>),
       Return(<<"loss", "loss_del_params">>) >>

\* ReverseKL.eval
ReverseKL_eval(env, ctx) ==
    LET s == ReverseKL_strategy(ctx.self)
    IN IF s.f = ""
       THEN << Raise("ValueError") >>
       ELSE << Default(s.key),
               Call(<<"loss", "loss_del_phi">>, <<"self", s.f>>,
                    <<"approx", "x", "num_samples">>) >>
            \o eval_lifting

\* ReverseKL._eval_elbo_reparameterisation
_eval_elbo_reparameterisation(env, ctx) ==
    << Call(<<"epsilon">>, <<"approx", "sample_base">>, <<"num_samples">>),
       Call(<<"theta">>, <<"approx", "transform">>, <<"epsilon", "phi">>),
       Call(<<"approx_lp">>, <<"approx", "logprob">>, <<"theta", "phi">>),
       Call(<<"joint_lp">>, <<"self", "joint", "logprob">>, <<"theta", "x">>),
       Use(<<"loss_samples">>, <<"joint_lp", "approx_lp">>),
       Call(<<"transform_del_phi">>, <<"approx", "transform_del_2">>,
            <<"epsilon", "phi">>),
       Call(<<"joint_del_phi">>, <<"self", "_compute_joint_del_phi">>,
            <<"x", "theta", "transform_del_phi">>),
       Call(<<"approx_del_phi">>, <<"self", "_compute_approx_del_phi">>,
            <<"approx", "phi", "theta", "transform_del_phi">>),
       Call(<<"<t>">>, <<"np", "einsum">>,
            <<"<lit>", "joint_del_theta", "transform_del_phi">>),
       Call(<<"<u>">>, <<"np", "einsum">>,
            <<"<lit>", "approx_del_phi", "transform_del_phi">>),
       Use(<<"loss_del_phi_samples">>, <<"<t>", "<u>">>),
       Call(<<"<t>">>, <<"np", "mean">>, <<"loss_samples">>),
       Use(<<"loss">>, <<"<t>">>),
       Call(<<"<t>">>, <<"np", "mean">>, <<"loss_del_phi_samples">>),
       Use(<<"loss_del_phi">>, <<"<t>">>),
       Return(<<"loss", "loss_del_phi">>) >>

\* The control-variate tail shared by ReverseKL._eval_elbo_cv (lines 147-155)
\* and ForwardKL._eval_controlvariates (lines 259-267).
controlvariate_tail(cv) ==
    << Assign("control_variate", cv),
       Attr("num_batch", <<"loss_samples", "shape">>),
       Call(<<"loss_samples">>, <<"self", "_apply_controlvariates">>,
            <<"loss_samples", "control_variate", "num_batch", "num_samples">>),
       Call(<<"loss_del_phi_samples">>, <<"self", "_apply_controlvariates">>,
            <<"loss_del_phi_samples", "control_variate", "num_batch",
              "num_samples">>),
       Call(<<"<t>">>, <<"np", "mean">>, <<"loss_samples">>),
       Use(<<"loss">>, <<"<t>">>),
       Call(<<"<t>">>, <<"np", "mean">>, <<"loss_del_phi_samples">>),
       Use(<<"loss_del_phi">>, <<"<t>">>),
       Return(<<"loss", "loss_del_phi">>) >>

\* ReverseKL._eval_elbo_cv
_eval_elbo_cv(env, ctx) ==
    << Call(<<"theta">>, <<"approx", "sample">>, <<"num_samples", "phi">>),
       Call(<<"approx_lp">>, <<"approx", "logpdf">>, <<"theta_samples", "phi">>),
       Call(<<"joint_lp">>, <<"self", "joint", "logpdf">>, <<"theta_samples", "x">>),
       Call(<<"approx_del_phi">>, <<"approx", "logpdf_del_2">>,
            <<"theta_samples", "phi">>),
       Use(<<"loss_samples">>, <<"joint_lp", "approx_lp">>),
       Call(<<"loss_del_phi_samples">>, <<"np", "einsum">>,
            <<"<lit>", "loss_samples", "approx_del_phi">>) >>
    \o controlvariate_tail("approx_del_phi")

\* ReverseKL._eval_selbo_reparameterisation
_eval_selbo_reparameterisation(env, ctx) ==
    << Call(<<"epsilon">>, <<"approx", "sample_base">>, <<"num_samples">>),
       Call(<<"theta">>, <<"approx", "transform">>, <<"epsilon", "phi">>),
       Call(<<"approx_lp">>, <<"approx", "logprob">>, <<"theta", "phi">>),
       Call(<<"joint_lp">>, <<"self", "joint", "logprob">>, <<"theta", "x">>),
       Use(<<"loss_samples">>, <<"joint_lp", "approx_lp">>),
       Call(<<"transform_del_phi">>, <<"approx", "transform_del_2">>,
            <<"epsilon", "phi">>),
       Call(<<"joint_del_phi">>,
            <<"self", "_compute_joint_del_phi_reparameterisation">>,
            <<"x", "theta", "transform_del_phi">>),
       Call(<<"approx_del_phi">>,
            <<"self", "_compute_approx_del_phi_reparameterisation">>,
            <<"approx", "phi", "theta", "transform_del_phi", "<True>">>),
       Call(<<"<t>">>, <<"np", "einsum">>,
            <<"<lit>", "joint_del_theta", "transform_del_phi">>),
       Call(<<"<u>">>, <<"np", "einsum">>,
            <<"<lit>", "approx_del_phi", "transform_del_phi">>),
       Use(<<"loss_del_phi_samples">>, <<"<t>", "<u>">>),
       Call(<<"coefficients">>, <<"approx", "coefficients">>, <<"phi">>),
       Call(<<"<t>">>, <<"np", "einsum">>, <<"<lit>", "coefficients", "loss_samples">>),
       Call(<<"loss">>, <<"np", "mean">>, <<"<t>">>),
       Call(<<"loss_del_phi">>, <<"np", "einsum">>,
            <<"<lit>", "coefficients", "loss_del_phi_samples">>),
       Return(<<"loss", "loss_del_phi">>) >>

\* ReverseKL._eval_selbo_cv: `pass`
_eval_selbo_cv(env, ctx) == << >>

\* ForwardKL.eval's dispatch with the reparameterisation flag tested before the
\* posterior samples.
ForwardKL_strategy_flag_first(self) ==
    IF self.use_reparameterisation
    THEN [f |-> "_eval_reparameterisation",
          args |-> <<"approx", "phi", "x", "num_samples">>]
    ELSE IF self.posterior_samples
    THEN [f |-> "_eval_posterior_samples", args |-> <<"approx", "phi">>]
    ELSE [f |-> "_eval_controlvariates",
          args |-> <<"approx", "phi", "x", "num_samples">>]

\* The estimator ForwardKL.eval selects.
ForwardKL_strategy(self) ==
    IF self.posterior_samples
    THEN [f |-> "_eval_posterior_samples", args |-> <<"approx", "phi">>]
    ELSE IF self.use_reparameterisation
    THEN [f |-> "_eval_reparameterisation",
          args |-> <<"approx", "phi", "x", "num_samples">>]
    ELSE [f |-> "_eval_controlvariates",
          args |-> <<"approx", "phi", "x", "num_samples">>]

\* ForwardKL.eval's entry check (line 199): both attributes missing from self.
ForwardKL_unconfigured(ctx) ==
    \A attr \in {"joint", "posterior_samples"} : ~HasAttr(SelfV, attr, ctx)

\* ForwardKL.eval
ForwardKL_eval(env, ctx) ==
    IF ForwardKL_unconfigured(ctx)
    THEN << Raise("ValueError") >>
    ELSE LET s == ForwardKL_strategy(ctx.self)
         IN << Call(<<"phi">>, <<"approx", "phi">>, <<"x">>),
               Call(<<"loss", "loss_del_phi">>, <<"self", s.f>>, s.args) >>
            \o eval_lifting

\* ForwardKL._eval_posterior_samples
_eval_posterior_samples(env, ctx) ==
    << Call(<<"approx_lp">>, <<"approx", "logprob">>, <<"<lit>", "phi">>),
       Call(<<"<t>">>, <<"jnp", "mean">>, <<"approx_lp">>),
       Use(<<"loss">>, <<"<t>">>),
       Call(<<"approx_del_phi">>, <<"approx", "logprob_del_2">>, <<"<lit>", "phi">>),
       Call(<<"<t>">>, <<"np", "mean">>, <<"approx_del_phi">>),
       Use(<<"grad">>, <<"<t>">>),
       Return(<<"loss", "grad">>) >>

\* ForwardKL._eval_reparameterisation
_eval_reparameterisation(env, ctx) ==
    << Call(<<"epsilon">>, <<"approx", "sample_base">>, <<"num_samples">>),
       Call(<<"theta">>, <<"approx", "transform">>, <<"epsilon", "phi">>),
       Call(<<"approx_lp">>, <<"approx", "logprob">>, <<"theta", "phi">>),
       Assign("loss_samples", "approx_lp"),
       Call(<<"transform_del_phi">>, <<"approx", "transform_del_2">>,
            <<"epsilon", "phi">>),
       Call(<<"joint_del_phi">>,
            <<"self", "_compute_joint_del_phi_reparameterisation">>,
            <<"x", "theta", "transform_del_phi">>),
       Call(<<"approx_del_phi">>,
            <<"self", "_compute_approx_del_phi_reparameterisation">>,
            <<"approx", "phi", "theta", "transform_del_phi">>),
       Call(<<"<t>">>, <<"np", "einsum">>, <<"<lit>", "approx_lp", "joint_del_phi">>),
       Call(<<"<u>">>, <<"np", "einsum">>, <<"<lit>", "approx_lp", "approx_del_phi">>),
       Use(<<"loss_del_phi_samples">>, <<"<t>", "<u>">>),
       Call(<<"joint_lp">>, <<"self", "joint", "logprob">>, <<"theta", "x">>),
       Call(<<"loss_samples">>, <<"self", "_compute_importance_samples">>,
            <<"loss_samples", "approx_lp", "joint_lp">>),
       Call(<<"loss_del_phi_samples">>, <<"self", "_compute_importance_samples">>,
            <<"loss_del_phi_samples", "approx_lp", "joint_lp">>),
       Call(<<"<t>">>, <<"np", "mean">>, <<"loss_samples">>),
       Use(<<"loss">>, <<"<t>">>),
       Call(<<"<t>">>, <<"np", "mean">>, <<"loss_del_phi_samples">>),
       Use(<<"loss_del_phi">>, <<"<t>">>),
       Return(<<"loss", "loss_del_phi">>) >>

\* ForwardKL._eval_controlvariates
_eval_controlvariates(env, ctx) ==
    << Call(<<"theta">>, <<"approx", "sample">>, <<"num_samples", "phi">>),
       Call(<<"approx_lp">>, <<"approx", "logprob">>, <<"theta_samples", "phi">>),
       Call(<<"approx_del_phi_samples">>, <<"approx", "lp_del_2">>,
            <<"theta_samples", "phi">>),
       Assign("loss_samples", "approx_lp"),
       Call(<<"joint_lp">>, <<"joint", "logprob">>, <<"theta_samples", "x">>),
       Call(<<"loss_samples">>, <<"self", "_compute_importance_samples">>,
            <<"loss_samples", "approx_lp", "joint_lp">>),
       Call(<<"loss_del_phi_samples">>, <<"self", "_compute_importance_samples">>,
            <<"loss_del_phi_samples", "approx_lp", "joint_lp">>) >>
    \o controlvariate_tail("approx_del_phi_samples")

\* The call layer's view of ForwardKL._compute_importance_samples (its
\* arithmetic is compute_importance_samples below).
_compute_importance_samples(env, ctx) ==
    << Use(<<"log_wts">>, <<"joint_logprob", "approx_logprob">>),
       Call(<<"<t>">>, <<"np", "max">>, <<"log_wts">>),
       Call(<<"log_wts_max">>, <<"<t>", "reshape">>, <<"<lit>">>),
       Use(<<"<t>">>, <<"log_wts", "log_wts_max">>),
       Call(<<"unnorm_wts">>, <<"np", "exp">>, <<"<t>">>),
       Call(<<"<t>">>, <<"np", "sum">>, <<"unnorm_wts">>),
       Call(<<"<t>">>, <<"<t>", "reshape">>, <<"<lit>">>),
       Use(<<"<t>">>, <<"unnorm_wts", "samples", "<t>">>),
       Return(<<"<t>">>) >>

\* The body of def f of class ctx.self.cls.
Body(f, env, ctx) ==
    CASE f = "eval" ->
           IF ctx.self.cls = "ReverseKL" THEN ReverseKL_eval(env, ctx)
           ELSE ForwardKL_eval(env, ctx)
      [] f = "_compute_loss_del_params" -> _compute_loss_del_params(env, ctx)
      [] f = "_apply_controlvariates" -> _apply_controlvariates(env, ctx)
      [] f = "_vectorise_controlvariate_input" ->
           _vectorise_controlvariate_input(env, ctx)
      [] f = "_compute_covariance" -> _compute_covariance(env, ctx)
      [] f = "_compute_controlvariate_samples" ->
           _compute_controlvariate_samples(env, ctx)
      [] f = "_unvectorise_controlvariate_output" ->
           _unvectorise_controlvariate_output(env, ctx)
      [] f = "_compute_joint_del_phi_reparameterisation" ->
           _compute_joint_del_phi_reparameterisation(env, ctx)
      [] f = "_compute_approx_del_phi_reparameterisation" ->
           _compute_approx_del_phi_reparameterisation(env, ctx)
      [] f = "_eval_elbo_reparameterisation" -> _eval_elbo_reparameterisation(env, ctx)
      [] f = "_eval_elbo_cv" -> _eval_elbo_cv(env, ctx)
      [] f = "_eval_selbo_reparameterisation" ->
           _eval_selbo_reparameterisation(env, ctx)
      [] f = "_eval_selbo_cv" -> _eval_selbo_cv(env, ctx)
      [] f = "_eval_posterior_samples" -> _eval_posterior_samples(env, ctx)
      [] f = "_eval_reparameterisation" -> _eval_reparameterisation(env, ctx)
      [] f = "_eval_controlvariates" -> _eval_controlvariates(env, ctx)
      [] OTHER -> _compute_importance_samples(env, ctx)

\* ---------------------------------------------------------- evaluator

\* How a call ended: the exception raised ("none": it returned ret), what the
\* exception names (the unbound name, the missing attribute, the def whose
\* arguments do not fit), the collaborator operations called so far, in order,
\* and the defs of the class that were called (entered or not).
Outcome(exc, what, ret, acc) ==
    [exc |-> exc, what |-> what, ret |-> ret, calls |-> acc.calls,
     disp |-> acc.disp]

\* env with each target bound to its value.
Bind(env, targets, vals) ==
    [t \in {targets[i] : i \in 1..Len(targets)} |->
        vals[CHOOSE i \in 1..Len(targets) : targets[i] = t]] @@ env

\* The sample count a call passes: its first int argument (0: none).
SampleArg(a) ==
    IF \E i \in 1..Len(a) : a[i].kind = "int"
    THEN a[CHOOSE i \in 1..Len(a) :
               a[i].kind = "int" /\ \A j \in 1..(i-1) : a[j].kind # "int"].n
    ELSE 0

\* Parameter defaults (lines 71, 52, 93, 197).
ParamDefault(cls, p) ==
    CASE p = "num_samples" ->
           IF cls = "ForwardKL" THEN IntV(ForwardKL_num_samples) ELSE NoneV
      [] OTHER -> BoolV(FALSE)

RECURSIVE Run(_, _, _, _)
RECURSIVE Invoke(_, _, _, _)

\* Call def f of the object's class with the positional arguments a: TypeError
\* unless every parameter without a default gets an argument and no argument
\* is left over.
Invoke(f, a, ctx, acc) ==
    LET d == ClassDefs(ctx.self.cls)[f]
        acc2 == [acc EXCEPT !.disp = Append(@, [f |-> f, n |-> SampleArg(a)])]
    IN IF Len(a) < d.required \/ Len(a) > Len(d.params)
       THEN Outcome("TypeError", f, NoneV, acc2)
       ELSE LET env == [p \in {d.params[i] : i \in 1..Len(d.params)} |->
                          LET i == CHOOSE i \in 1..Len(d.params) : d.params[i] = p
                          IN IF i <= Len(a) THEN a[i]
                             ELSE ParamDefault(ctx.self.cls, p)]
            IN Run(Body(f, env, ctx), env, ctx, acc2)

\* Execute the statements in order; the first exception ends the call.
Run(stmts, env, ctx, acc) ==
    IF stmts = << >> THEN Outcome("none", "", NoneV, acc)
    ELSE
    LET s == Head(stmts)
        rest == Tail(stmts)
        fresh == [i \in 1..Len(s.targets) |-> ArrV(s.targets[i])]
    IN
    CASE s.op = "raise" -> Outcome(s.key, "", NoneV, acc)
      [] s.op = "return" ->
           IF Unbound(s.args, env) # {}
           THEN Outcome("NameError", FirstUnbound(s.args, env), NoneV, acc)
           ELSE LET v == ArgVals(s.args, env)
                IN Outcome("none", "",
                           IF Len(v) = 2 THEN PairV(v[1], v[2]) ELSE v[1], acc)
      [] s.op = "assign" ->
           IF Unbound(s.args, env) # {}
           THEN Outcome("NameError", FirstUnbound(s.args, env), NoneV, acc)
           ELSE Run(rest, Bind(env, s.targets, ArgVals(s.args, env)), ctx, acc)
      [] s.op = "use" ->
           IF Unbound(s.args, env) # {}
           THEN Outcome("NameError", FirstUnbound(s.args, env), NoneV, acc)
           ELSE Run(rest, Bind(env, s.targets, fresh), ctx, acc)
      [] s.op = "attr" ->
           LET c == ResolvePath(s.path, env, ctx)
           IN IF c.exc # "none" THEN Outcome(c.exc, c.what, NoneV, acc)
              ELSE Run(rest, Bind(env, s.targets, <<c.val>>), ctx, acc)
      [] s.op = "default" ->
           Run(rest,
               Bind(env, s.targets,
                    << IF env["num_samples"].kind = "None"
                       THEN IntV(default_num_samples[s.key])
                       ELSE env["num_samples"] >>),
               ctx, acc)
      [] OTHER ->
           LET c == ResolvePath(s.path, env, ctx)
               a == ArgVals(s.args, env)
           IN
           IF c.exc # "none" THEN Outcome(c.exc, c.what, NoneV, acc)
           ELSE IF Unbound(s.args, env) # {}
           THEN Outcome("NameError", FirstUnbound(s.args, env), NoneV, acc)
           ELSE
           CASE c.val.kind \in {"approx_op", "joint_op"} ->
                  Run(rest, Bind(env, s.targets, fresh), ctx,
                      [acc EXCEPT !.calls =
                          Append(@, [on |-> IF c.val.kind = "approx_op"
                                            THEN "approx" ELSE "joint",
                                     f |-> c.val.name,
                                     n |-> SampleArg(a)])])
             [] c.val.kind = "callable" ->
                  Run(rest, Bind(env, s.targets, fresh), ctx, acc)
             [] c.val.kind = "method" ->
                  LET d == ClassDefs(ctx.self.cls)[c.val.name]
                      recv == ResolvePath(SubSeq(s.path, 1, Len(s.path) - 1),
                                          env, ctx).val
                      r == Invoke(c.val.name,
                                  IF d.static THEN a ELSE <<recv>> \o a,
                                  ctx, acc)
                      acc2 == [calls |-> r.calls, disp |-> r.disp]
                  IN IF r.exc # "none" THEN r
                     ELSE IF Len(s.targets) = 2
                     THEN IF r.ret.kind = "pair"
                          THEN Run(rest,
                                   Bind(env, s.targets,
                                        <<ArrV(r.ret.name), ArrV(r.ret.snd)>>),
                                   ctx, acc2)
                          \* None cannot be unpacked into two targets
                          ELSE Outcome("TypeError", c.val.name, NoneV, acc2)
                     ELSE Run(rest, Bind(env, s.targets, <<r.ret>>), ctx, acc2)
             [] OTHER -> Outcome("TypeError", s.path[Len(s.path)], NoneV, acc)

\* ReverseKL.__init__: the exception it raises for the method string ("none":
\* it assigns the three attributes).
ReverseKL_init(method) ==
    IF ~methodsDefined THEN "AttributeError"
    ELSE IF Lower(method) \notin Methods THEN "ValueError"
    ELSE "none"

\* ------------------------------------------------------- exact numbers

RECURSIVE GCD(_, _)
GCD(a, b) == IF b = 0 THEN a ELSE GCD(b, a % b)

Abs(a) == IF a < 0 THEN -a ELSE a

\* The rational n/d in lowest terms with a positive denominator.
Rat(n, d) ==
    LET g == GCD(Abs(n), Abs(d))
        sgn == IF d < 0 THEN -1 ELSE 1
    IN [num |-> sgn * (n \div g), den |-> sgn * (d \div g)]

RInt(n) == Rat(n, 1)
RAdd(p, q) == Rat(p.num * q.den + q.num * p.den, p.den * q.den)
RMul(p, q) == Rat(p.num * q.num, p.den * q.den)
RDiv(p, q) == Rat(p.num * q.den, p.den * q.num)
RNeg(p) == [num |-> -p.num, den |-> p.den]

RECURSIVE RSum(_)
RSum(row) == IF row = << >> THEN RInt(0) ELSE RAdd(Head(row), RSum(Tail(row)))

\* np.mean over a row
RMean(row) == RDiv(RSum(row), RInt(Len(row)))

RECURSIVE Pow2(_)
Pow2(k) == IF k = 0 THEN 1 ELSE 2 * Pow2(k - 1)

\* np.exp, for an exponent of k * ln 2
Exp(k) == IF k >= 0 THEN Rat(Pow2(k), 1) ELSE Rat(1, Pow2(-k))

\* np.max over a row of integers
RowMax(row) == CHOOSE m \in {row[i] : i \in 1..Len(row)} :
                   \A i \in 1..Len(row) : row[i] <= m

\* ------------------------------------------------------- numeric layer
\* Tensors are sequences indexed batch first, then sample: t[a][b].

\* _compute_importance_samples normalising by the largest weight of the batch
\* element (always 1 after the shift) in place of the sum of its weights.
compute_importance_samples_max_normalised(samples, approx_logprob, joint_logprob) ==
    LET nb == Len(samples)
        ns == Len(samples[1])
        log_wts == [a \in 1..nb |->
                       [b \in 1..ns |-> joint_logprob[a][b] - approx_logprob[a][b]]]
        log_wts_max == [a \in 1..nb |-> RowMax(log_wts[a])]
        unnorm_wts == [a \in 1..nb |->
                          [b \in 1..ns |-> Exp(log_wts[a][b] - log_wts_max[a])]]
    IN [a \in 1..nb |->
           [b \in 1..ns |-> RMul(unnorm_wts[a][b], RInt(samples[a][b]))]]

\* ForwardKL._compute_importance_samples, for samples of shape
\* (num_batch, num_samples) and integer log-densities in units of ln 2.
compute_importance_samples(samples, approx_logprob, joint_logprob) ==
    LET nb == Len(samples)
        ns == Len(samples[1])
        log_wts == [a \in 1..nb |->
                       [b \in 1..ns |-> joint_logprob[a][b] - approx_logprob[a][b]]]
        \* np.max(log_wts, axis=1).reshape(-1,1)
        log_wts_max == [a \in 1..nb |-> RowMax(log_wts[a])]
        unnorm_wts == [a \in 1..nb |->
                          [b \in 1..ns |-> Exp(log_wts[a][b] - log_wts_max[a])]]
        \* np.sum(unnorm_wts, axis=1).reshape(-1,1)
        total == [a \in 1..nb |-> RSum(unnorm_wts[a])]
    IN [a \in 1..nb |->
           [b \in 1..ns |->
               RDiv(RMul(unnorm_wts[a][b], RInt(samples[a][b])), total[a])]]

\* -1*np.mean(t, axis=1): the closing reduction of _eval_elbo_reparameterisation
\* (lines 131-132), _eval_elbo_cv (152-153), _eval_posterior_samples (218-220),
\* ForwardKL._eval_reparameterisation (241-242) and _eval_controlvariates
\* (264-265), for the loss and for the gradient alike.
neg_mean_axis1(t) ==
    [a \in 1..Len(t) |-> RNeg(RMean([b \in 1..Len(t[a]) |-> RInt(t[a][b])]))]

\* np.einsum("m, mab->ab", coefficients, t)
einsum_m_mab(coefficients, t) ==
    [a \in 1..Len(t[1]) |->
        [b \in 1..Len(t[1][1]) |->
            RSum([m \in 1..Len(t) |-> RMul(coefficients[m], RInt(t[m][a][b]))])]]

\* _eval_selbo_reparameterisation's loss (line 175)
selbo_loss(coefficients, loss_samples) ==
    LET e == einsum_m_mab(coefficients, loss_samples)
    IN [a \in 1..Len(e) |-> RMean(e[a])]

\* _eval_selbo_reparameterisation's gradient (line 176)
selbo_loss_del_phi(coefficients, loss_del_phi_samples) ==
    einsum_m_mab(coefficients, loss_del_phi_samples)

\* The strategies whose closing lines are -1*np.mean(..., axis=1).
NegMeanStrategies ==
    {"_eval_elbo_reparameterisation", "_eval_elbo_cv", "_eval_posterior_samples",
     "_eval_reparameterisation", "_eval_controlvariates"}

\* --------------------------------------------------------------- state

NoInst ==
    [cls |-> "none", joint |-> FALSE, posterior_samples |-> FALSE,
     use_reparameterisation |-> FALSE, method |-> ""]

NoAcc == [calls |-> << >>, disp |-> << >>]

\* A record of the last call: op is the caller's expression, self the object's
\* attributes when it was made, method the string given to ReverseKL(...),
\* caps the approx collaborator's capabilities, ns the num_samples the caller
\* passed (0: left out), flag the value a direct call gives to a boolean
\* parameter and whether the control variate it passes is empty (dim_cv = 0).
Last(op, self, method, caps, ns, flag, f, out) ==
    [op |-> op, self |-> self, method |-> method, caps |-> caps, ns |-> ns,
     flag |-> flag, f |-> f, exc |-> out.exc, what |-> out.what, ret |-> out.ret,
     calls |-> out.calls, disp |-> out.disp]

NoCalc ==
    [fn |-> "none", which |-> "", samples |-> << >>, approx_logprob |-> << >>,
     joint_logprob |-> << >>, coefficients |-> << >>, components |-> << >>,
     done |-> FALSE, ret |-> << >>]

\* The method strings a caller passes.
MethodInputs == {"elbo", "selbo", "ELBO", "foo"}

Init ==
    /\ methodsDefined \in BOOLEAN
    /\ inst = NoInst
    /\ last = Last("none", NoInst, "", {}, 0, FALSE, "",
                    Outcome("none", "", NoneV, NoAcc))
    /\ calc = NoCalc

\* ReverseKL(jointdist, use_reparameterisation, method)
New_ReverseKL ==
    \E method \in MethodInputs, reparam \in BOOLEAN :
        LET exc == ReverseKL_init(method)
            obj == [cls |-> "ReverseKL", joint |-> TRUE,
                    posterior_samples |-> FALSE,
                    use_reparameterisation |-> reparam, method |-> method]
        IN /\ inst' = IF exc = "none" THEN obj ELSE inst
           /\ last' = Last("ReverseKL", inst, method, {}, 0, FALSE, "__init__",
                           Outcome(exc,
                                   IF exc = "AttributeError" THEN "_methods"
                                   ELSE "",
                                   NoneV, NoAcc))
           /\ UNCHANGED <<methodsDefined, calc>>

\* ForwardKL(jointdist, posterior_samples, use_reparameterisation)
New_ForwardKL ==
    \E joint \in BOOLEAN, post \in BOOLEAN, reparam \in BOOLEAN :
        /\ inst' = [cls |-> "ForwardKL", joint |-> joint,
                    posterior_samples |-> post,
                    use_reparameterisation |-> reparam, method |-> ""]
        /\ last' = Last("ForwardKL", inst, "", {}, 0, FALSE, "__init__",
                        Outcome("none", "", NoneV, NoAcc))
        /\ UNCHANGED <<methodsDefined, calc>>

\* obj.eval(approx, x) or obj.eval(approx, x, num_samples)
Call_eval ==
    /\ inst.cls # "none"
    /\ \E caps \in ApproxCapSets, ns \in 0..MaxNumSamples :
          LET ctx == [self |-> inst, caps |-> caps]
              a == <<SelfV, ApproxV, ArrV("x")>>
                   \o (IF ns = 0 THEN << >> ELSE <<IntV(ns)>>)
          IN last' = Last("eval", inst, inst.method, caps, ns, FALSE, "eval",
                          Invoke("eval", a, ctx, NoAcc))
    /\ UNCHANGED <<methodsDefined, inst, calc>>

\* The argument a direct call passes for parameter p.
ArgFor(p, ns, flag) ==
    CASE p = "self" -> SelfV
      [] p \in {"approx", "approxdist"} -> ApproxV
      [] p \in {"num_samples", "num_batch"} -> IntV(ns)
      [] p \in {"approx_is_mixture", "subtract_mean_from_val_2", "return_grad"} ->
           BoolV(flag)
      [] p = "cv" -> ArrV(IF flag THEN "cv_dim0" ELSE "cv")
      [] OTHER -> ArrV(p)

\* A direct call of one of the class's other defs, one argument per parameter.
Call_private ==
    /\ inst.cls # "none"
    /\ \E f \in DOMAIN ClassDefs(inst.cls) \ {"eval"},
          caps \in ApproxCapSets, flag \in BOOLEAN :
          LET ctx == [self |-> inst, caps |-> caps]
              ps == ClassDefs(inst.cls)[f].params
              a == [i \in 1..Len(ps) |-> ArgFor(ps[i], 1, flag)]
          IN last' = Last("private", inst, inst.method, caps, 1, flag, f,
                          Invoke(f, a, ctx, NoAcc))
    /\ UNCHANGED <<methodsDefined, inst, calc>>

Next == New_ReverseKL \/ New_ForwardKL \/ Call_eval \/ Call_private

Spec == Init /\ [][Next]_vars

\* ------------------------------------------------- numeric layer: steps

\* The batch axis: two independent problems.
Batch == 1..2
\* The mixture-component axis of the selbo strategy.
Component == 1..2
\* Per-sample values, log-densities (in units of ln 2) and mixture coefficients.
SampleVals == {1, 2}
LogVals == {0, 1}
CoefficientInputs == {<<Rat(3, 10), Rat(7, 10)>>, <<Rat(1, 2), Rat(1, 2)>>}

Tensors(ns, vals) == [Batch -> [1..ns -> vals]]

\* The inputs of one computation, not yet applied.
\* samples has shape (num_batch, num_samples); components, the selbo strategy's
\* per-component samples, (num_components, num_batch, num_samples).
Pending(fn, which, samples, a_lp, j_lp, coefficients, components) ==
    [fn |-> fn, which |-> which, samples |-> samples,
     approx_logprob |-> a_lp, joint_logprob |-> j_lp,
     coefficients |-> coefficients, components |-> components,
     done |-> FALSE, ret |-> << >>]

\* The inputs of a call of _compute_importance_samples.
ImportanceInputs(c) ==
    \E ns \in 1..MaxSamples :
      \E s \in Tensors(ns, SampleVals),
         a \in Tensors(ns, LogVals), j \in Tensors(ns, LogVals) :
        c = Pending("_compute_importance_samples", "", s, a, j, << >>, << >>)

\* The per-sample losses or gradients a -1*np.mean strategy ends on.
NegMeanInputs(c) ==
    \E ns \in 1..MaxSamples, f \in NegMeanStrategies, w \in {"loss", "grad"} :
      \E t \in Tensors(ns, SampleVals) :
        c = Pending(f, w, t, << >>, << >>, << >>, << >>)

\* The coefficients and per-component samples the selbo strategy ends on.
SelboInputs(c) ==
    \E ns \in 1..MaxSamples, w \in {"loss", "grad"}, k \in CoefficientInputs :
      \E t \in [Component -> Tensors(ns, SampleVals)] :
        c = Pending("_eval_selbo_reparameterisation", w, << >>, << >>, << >>, k, t)

InitNum ==
    /\ methodsDefined = FALSE
    /\ inst = NoInst
    /\ last = Last("none", NoInst, "", {}, 0, FALSE, "",
                    Outcome("none", "", NoneV, NoAcc))
    /\ ImportanceInputs(calc) \/ NegMeanInputs(calc) \/ SelboInputs(calc)

\* ForwardKL._compute_importance_samples(samples, approx_logprob, joint_logprob)
Num_importance_samples ==
    /\ calc.fn = "_compute_importance_samples" /\ ~calc.done
    /\ calc' = [calc EXCEPT
                  !.done = TRUE,
                  !.ret = compute_importance_samples(calc.samples,
                              calc.approx_logprob, calc.joint_logprob)]
    /\ UNCHANGED <<methodsDefined, inst, last>>

\* The closing reduction of a strategy that ends in -1*np.mean(..., axis=1),
\* applied to its per-sample losses or per-sample gradients.
Num_neg_mean ==
    /\ calc.fn \in NegMeanStrategies /\ ~calc.done
    /\ calc' = [calc EXCEPT !.done = TRUE, !.ret = neg_mean_axis1(calc.samples)]
    /\ UNCHANGED <<methodsDefined, inst, last>>

\* The closing reduction of _eval_selbo_reparameterisation (lines 174-176).
Num_selbo ==
    /\ calc.fn = "_eval_selbo_reparameterisation" /\ ~calc.done
    /\ calc' = [calc EXCEPT
                  !.done = TRUE,
                  !.ret = IF calc.which = "loss"
                          THEN selbo_loss(calc.coefficients, calc.components)
                          ELSE selbo_loss_del_phi(calc.coefficients,
                                                  calc.components)]
    /\ UNCHANGED <<methodsDefined, inst, last>>

NextNum == Num_importance_samples \/ Num_neg_mean \/ Num_selbo

SpecNum == InitNum /\ [][NextNum]_vars

\* =============================================================== claims

\* The collaborator operations that draw or transform samples.
SamplingOps == {"sample", "sample_base", "transform"}

CallsOn(who) == {i \in 1..Len(last.calls) : last.calls[i].on = who}

ReverseKL_evaluated == last.op = "eval" /\ last.self.cls = "ReverseKL"
ForwardKL_evaluated == last.op = "eval" /\ last.self.cls = "ForwardKL"

\* C1: a method string outside {elbo, selbo} ends in ValueError, at
\* construction or (when construction lets the string through) at eval, and
\* no collaborator operation has been called when the error is raised.
C1_InvalidMethodIsValueError ==
    /\ (last.op = "ReverseKL" /\ last.method \notin Methods)
          => (last.exc \in {"ValueError", "none"} /\ last.calls = << >>)
    /\ (ReverseKL_evaluated /\ last.self.method \notin Methods)
          => (last.exc = "ValueError" /\ last.calls = << >>)

\* C2: ForwardKL.eval on an object built with neither jointdist nor
\* posterior_samples raises ValueError at entry: no approx operation is
\* called and no estimator is dispatched to.
C2_UnconfiguredForwardKLFailsAtEntry ==
    (ForwardKL_evaluated /\ ~last.self.joint /\ ~last.self.posterior_samples)
        => /\ last.exc = "ValueError"
           /\ last.calls = << >>
           /\ Len(last.disp) = 1

\* C3: ForwardKL.eval on an object built with posterior_samples and without
\* jointdist dispatches to _eval_posterior_samples whatever
\* use_reparameterisation is, calls no joint operation and no sampling
\* operation of approx.
C3_PosteriorSamplesNoJointNoSampling ==
    (ForwardKL_evaluated /\ last.self.posterior_samples /\ ~last.self.joint)
        => /\ Len(last.disp) >= 2
           /\ last.disp[2].f = "_eval_posterior_samples"
           /\ \A i \in 2..Len(last.disp) :
                 last.disp[i].f \notin {"_eval_reparameterisation",
                                        "_eval_controlvariates"}
           /\ CallsOn("joint") = {}
           /\ \A i \in CallsOn("approx") : last.calls[i].f \notin SamplingOps

\* C3's case: such an eval, with use_reparameterisation set, has run and went
\* to the posterior-samples estimator.
C3_Witness ==
    /\ ForwardKL_evaluated
    /\ last.self.posterior_samples /\ ~last.self.joint
    /\ last.self.use_reparameterisation
    /\ Len(last.disp) = 2 /\ last.disp[2].f = "_eval_posterior_samples"
    /\ Len(last.calls) = 1 /\ last.calls[1].f = "phi"

\* C4: for each valid method and either value of use_reparameterisation,
\* constructing the ReverseKL and calling eval ends in no error, and eval
\* returns a pair (loss, loss_del_params).
C4_ValidConfigurationReturnsPair ==
    /\ (last.op = "ReverseKL" /\ last.method \in Methods) => last.exc = "none"
    /\ (ReverseKL_evaluated /\ last.self.method \in Methods)
          => (last.exc = "none" /\ last.ret.kind = "pair")

\* The value x is the negated mean of the row of rationals.
IsNegatedMean(x, row) == RMul(x, RInt(Len(row))) = RNeg(RSum(row))

\* The per-sample estimate a strategy's closing reduction is applied to: the
\* samples themselves, or for the mixture strategy their coefficient-weighted
\* sum over the components.
PerSampleEstimate ==
    IF calc.fn = "_eval_selbo_reparameterisation"
    THEN [a \in Batch |->
            [b \in 1..Len(calc.components[1][a]) |->
                RSum([m \in Component |->
                        RMul(calc.coefficients[m],
                             RInt(calc.components[m][a][b]))])]]
    ELSE [a \in Batch |->
            [b \in 1..Len(calc.samples[a]) |-> RInt(calc.samples[a][b])]]

\* C5: in every strategy the returned loss, and the returned gradient, of each
\* batch element is the negated mean over the sample axis of the per-sample
\* estimate.
C5_ResultIsNegatedSampleMean ==
    (calc.done /\ calc.fn \in NegMeanStrategies \cup {"_eval_selbo_reparameterisation"})
        => \A a \in Batch :
              /\ calc.ret[a] \in [num : Int, den : Int]
              /\ IsNegatedMean(calc.ret[a], PerSampleEstimate[a])

\* C6: _eval_selbo_reparameterisation, called on a mixture approx (directly or
\* through eval), asks approx for its coefficients and returns the gradient it
\* composed from them, loss_del_phi.
C6_SelboReturnsComposedGradient ==
    ( /\ \/ last.op = "private" /\ last.f = "_eval_selbo_reparameterisation"
         \/ ReverseKL_evaluated /\ last.self.method = "selbo"
                                /\ last.self.use_reparameterisation
      /\ "coefficients" \in last.caps )
        => /\ last.exc = "none"
           /\ \E i \in CallsOn("approx") : last.calls[i].f = "coefficients"
           /\ last.ret.kind = "pair" /\ last.ret.snd = "loss_del_phi"

\* The two log-weight inputs are identical for every sample of batch element a.
UniformWeights(a) ==
    /\ calc.fn = "_compute_importance_samples"
    /\ calc.approx_logprob[a] = calc.joint_logprob[a]

\* The mean of batch element a's input samples.
SampleMean(a) ==
    RMean([k \in 1..Len(calc.samples[a]) |-> RInt(calc.samples[a][k])])

C8_LiftingIsIdentityWithoutJacobian ==
    (last.op = "eval" /\ "phi_del_params" \notin last.caps)
        => /\ last.what # "_eval_loss_del_params"
           /\ \A i \in CallsOn("approx") : last.calls[i].f # "phi_del_params"
           /\ last.exc = "none"
                 => (last.ret.kind = "pair" /\ last.ret.snd = "loss_del_phi")

\* C9: _apply_controlvariates with a control variate of flattened dimension 0
\* returns the value it was given.
C9_EmptyControlVariateIsIdentity ==
    (last.op = "private" /\ last.f = "_apply_controlvariates" /\ last.flag)
        => (last.exc = "none" /\ last.ret = ArrV("val"))

\* The sample count ReverseKL.eval is to request: the table's entry for the
\* configuration when num_samples is left out, else the value given.
ExpectedSampleCount ==
    IF last.ns = 0 THEN default_num_samples[ReverseKL_strategy(last.self).key]
    ELSE last.ns

\* C10: ReverseKL.eval requests from approx the table's default sample count
\* for its configuration (100, 1000, 10) when num_samples is left out, and
\* exactly the given value when it is given.
C10_DefaultSampleCountRequested ==
    ( /\ ReverseKL_evaluated
      /\ ReverseKL_strategy(last.self).key
            \in {"elbo_reparam", "elbo_cv", "selbo_reparam"} )
        => \E i \in CallsOn("approx") :
              /\ last.calls[i].f \in {"sample", "sample_base"}
              /\ last.calls[i].n = ExpectedSampleCount

====
